---- MODULE Spec2Model ----
(***************************************************************************)
(* The GT class-catalog ETL: transform_json_to_list flattens the catalog   *)
(* document (courses referencing shared cache tables by integer index)     *)
(* into one dictionary per course section, and transform turns that list   *)
(* into the cleaned table.  Two copies of the pipeline exist in the        *)
(* repository, src/etl.py and src/etl/gt_class_etl.py; the variable        *)
(* module says which copy runs.                                            *)
(*                                                                         *)
(* Python values are modelled as follows.  A str that the pipeline reads   *)
(* character by character is Str(<<"0","8",...>>), a sequence of one-      *)
(* character strings; an opaque str (a label, an identifier) is a TLA+     *)
(* string.  A list or tuple is a sequence, subscripted from 0 by GetItem.  *)
(* A dict is a function on its keys.  A call returns Ok(value) or          *)
(* Raise(exception name).                                                  *)
(***************************************************************************)
EXTENDS Integers, Sequences, FiniteSets, TLC

VARIABLES module, json, pc, course_list, df, error

vars == <<module, json, pc, course_list, df, error>>

----------------------------------------------------------------------------
(* Python values and results *)

Str(s) == [str |-> s]

PyList(l) == [list |-> l]

None == [none |-> TRUE]

NaN == [nan |-> TRUE]

Ok(v) == [ok |-> TRUE, val |-> v]

Raise(e) == [ok |-> FALSE, exc |-> e]

\* seq[k] on a list or tuple: negative k counts from the end.
GetItem(seq, k) ==
  IF 0 <= k /\ k < Len(seq) THEN Ok(seq[k + 1])
  ELSE IF k < 0 /\ -Len(seq) <= k THEN Ok(seq[Len(seq) + k + 1])
  ELSE Raise("IndexError")

\* d[key] on a dict.
DictGet(d, key) ==
  IF key \in DOMAIN d THEN Ok(d[key]) ELSE Raise("KeyError")

\* caches[table][idx]
CacheGet(caches, table, idx) ==
  LET t == DictGet(caches, table)
  IN  IF ~t.ok THEN t ELSE GetItem(t.val, idx)

\* A mutation of CacheRef: the index read from the tuple is ignored and the
\* table's first entry is taken.
CacheRef_first(caches, table, tuple, pos) ==
  LET t == DictGet(caches, table)
      i == GetItem(tuple, pos)
  IN  IF ~t.ok THEN t
      ELSE IF ~i.ok THEN i
      ELSE GetItem(t.val, 0)

\* caches[table][tuple[pos]]: the table is looked up first, then the index
\* is read from the tuple, then the table is subscripted.
CacheRef(caches, table, tuple, pos) ==
  LET t == DictGet(caches, table)
      i == GetItem(tuple, pos)
  IN  IF ~t.ok THEN t
      ELSE IF ~i.ok THEN i
      ELSE GetItem(t.val, i.val)

----------------------------------------------------------------------------
(* transform_json_to_list *)

Step(key, res) == [key |-> key, res |-> res]

\* The assignments course_format[key] = value of one loop body, in order:
\* the first one that raises ends the call.
RECURSIVE RunAssignments(_, _)
RunAssignments(steps, course_format) ==
  IF Len(steps) = 0 THEN Ok(course_format)
  ELSE LET s == Head(steps)
       IN  IF ~s.res.ok THEN s.res
           ELSE RunAssignments(Tail(steps),
                  IF s.key = "" THEN course_format
                  ELSE (s.key :> s.res.val) @@ course_format)

\* src/etl.py: the field is first the index list itself, then each loop
\* iteration overwrites it with one resolved label.
RECURSIVE OverwriteLoop(_, _, _)
OverwriteLoop(caches, idxs, attributes) ==
  IF Len(idxs) = 0 THEN Ok(attributes)
  ELSE LET r == CacheGet(caches, "attributes", Head(idxs))
       IN  IF ~r.ok THEN r
           ELSE OverwriteLoop(caches, Tail(idxs), Str(r.val))

attributes_etl(caches, course_details) ==
  LET a == GetItem(course_details, 5)
  IN  IF ~a.ok THEN a ELSE OverwriteLoop(caches, a.val, PyList(a.val))

\* src/etl/gt_class_etl.py: a list comprehension, or None for an empty list.
RECURSIVE Comprehension(_, _, _)
Comprehension(caches, idxs, labels) ==
  IF Len(idxs) = 0 THEN Ok(PyList(labels))
  ELSE LET r == CacheGet(caches, "attributes", Head(idxs))
       IN  IF ~r.ok THEN r
           ELSE Comprehension(caches, Tail(idxs), Append(labels, r.val))

attributes_gt_class_etl(caches, course_details) ==
  LET a == GetItem(course_details, 5)
  IN  IF ~a.ok THEN a
      ELSE IF Len(a.val) > 0 THEN Comprehension(caches, a.val, <<>>)
      ELSE Ok(None)

attributes_of(mod, caches, course_details) ==
  IF mod = "etl" THEN attributes_etl(caches, course_details)
  ELSE attributes_gt_class_etl(caches, course_details)

\* The assignments made under "if course_details[1]:".
meeting_fields(caches, section_details) ==
  << Step("time", CacheRef(caches, "periods", section_details, 0)),
     Step("day_of_week", GetItem(section_details, 1)),
     Step("building", GetItem(section_details, 2)),
     Step("building_coords", CacheRef(caches, "locations", section_details, 3)),
     Step("professors", GetItem(section_details, 4)),
     Step("date_range", CacheRef(caches, "dateRanges", section_details, 5)) >>

\* A mutation of meeting_steps: a section without meetings gets the meeting
\* keys with None values.
meeting_steps_placeholders(caches, meetings) ==
  IF meetings.ok /\ Len(meetings.val) > 0
  THEN meeting_fields(caches, meetings.val[1])
  ELSE << Step("time", Ok(None)), Step("day_of_week", Ok(None)),
          Step("building", Ok(None)), Step("building_coords", Ok(None)),
          Step("professors", Ok(None)), Step("date_range", Ok(None)) >>

\* "if course_details[1]:" takes element 0 of a non-empty meetings list and
\* assigns the meeting keys; an empty list assigns nothing.
meeting_steps(caches, meetings) ==
  IF meetings.ok /\ Len(meetings.val) > 0
  THEN meeting_fields(caches, meetings.val[1])
  ELSE << >>

\* One body of the inner loop: the dictionary built for section l of course i.
course_format_of(mod, caches, i, course, l, course_details) ==
  LET meetings == GetItem(course_details, 1)
      steps ==
        << Step("crn", GetItem(course_details, 0)),
           Step("name", Ok(i)),
           Step("actual_name", GetItem(course, 0)),
           Step("section", Ok(l)),
           Step("", meetings) >>
        \o meeting_steps(caches, meetings)
        \o << Step("credits", GetItem(course_details, 2)),
              Step("schedule_type", CacheRef(caches, "scheduleTypes", course_details, 3)),
              Step("campus", CacheRef(caches, "campuses", course_details, 4)),
              Step("attributes", attributes_of(mod, caches, course_details)) >>
  IN  RunAssignments(steps, << >>)

\* A mutation of append: the new dictionary goes to the front.
append_front(list, course_format) == <<course_format>> \o list

\* course_list.append(course_format)
append(list, course_format) == Append(list, course_format)

\* for l in sections: sections is the sequence of <<sectionId, SectionRecord>>
\* pairs in the mapping's iteration (insertion) order.
RECURSIVE SectionLoop(_, _, _, _, _, _)
SectionLoop(mod, caches, i, course, sections, list) ==
  IF Len(sections) = 0 THEN Ok(list)
  ELSE LET l == Head(sections)[1]
           course_details == Head(sections)[2]
           r == course_format_of(mod, caches, i, course, l, course_details)
       IN  IF ~r.ok THEN r
           ELSE SectionLoop(mod, caches, i, course, Tail(sections),
                            append(list, r.val))

\* for i in courses: courses is the sequence of <<courseId, course>> pairs.
RECURSIVE CourseLoop(_, _, _, _)
CourseLoop(mod, caches, courses, list) ==
  IF Len(courses) = 0 THEN Ok(list)
  ELSE LET i == Head(courses)[1]
           course == Head(courses)[2]
           sections == GetItem(course, 1)
       IN  IF ~sections.ok THEN sections
           ELSE LET r == SectionLoop(mod, caches, i, course, sections.val, list)
                IN  IF ~r.ok THEN r
                    ELSE CourseLoop(mod, caches, Tail(courses), r.val)

transform_json_to_list(mod, doc) ==
  CourseLoop(mod, doc.caches, doc.courses, << >>)

----------------------------------------------------------------------------
(* str methods used by transform *)

Digits == {"0", "1", "2", "3", "4", "5", "6", "7", "8", "9"}

Letters == {"A", "B", "C", "F", "G", "M", "R", "T", "W", "a", "b", "c"}

DigitVal ==
  "0" :> 0 @@ "1" :> 1 @@ "2" :> 2 @@ "3" :> 3 @@ "4" :> 4 @@
  "5" :> 5 @@ "6" :> 6 @@ "7" :> 7 @@ "8" :> 8 @@ "9" :> 9

SetMax(S) == CHOOSE x \in S : \A y \in S : y <= x

\* The separator ' - ' of both split calls.
Sep == <<" ", "-", " ">>

StartsWith(s, p) == Len(s) >= Len(p) /\ SubSeq(s, 1, Len(p)) = p

\* str.split(sep): the parts between the non-overlapping occurrences of sep,
\* scanned from the left; cur is the part being read.
RECURSIVE SplitFrom(_, _, _)
SplitFrom(s, sep, cur) ==
  IF Len(s) = 0 THEN <<cur>>
  ELSE IF StartsWith(s, sep)
       THEN <<cur>> \o SplitFrom(SubSeq(s, Len(sep) + 1, Len(s)), sep, << >>)
       ELSE SplitFrom(Tail(s), sep, Append(cur, Head(s)))

split(s, sep) == SplitFrom(s, sep, << >>)

\* str.isdigit()
isdigit(s) == Len(s) > 0 /\ \A k \in 1..Len(s) : s[k] \in Digits

\* int() of a digit string
RECURSIVE ToInt(_)
ToInt(s) ==
  IF Len(s) = 0 THEN 0
  ELSE 10 * ToInt(SubSeq(s, 1, Len(s) - 1)) + DigitVal[s[Len(s)]]

Time(h, m) == [hour |-> h, minute |-> m]

\* %H is the regular expression 2[0-3]|[0-1]\d|\d : whether its two-character
\* alternatives match at the start of s.
HourTwo(s) ==
  /\ Len(s) >= 2
  /\ \/ s[1] = "2" /\ s[2] \in {"0", "1", "2", "3"}
     \/ s[1] \in {"0", "1"} /\ s[2] \in Digits

\* %M is [0-5]\d|\d : the length it matches at position from (0: no match).
MinuteLen(s, from) ==
  IF from + 1 <= Len(s) /\ s[from] \in {"0", "1", "2", "3", "4", "5"}
     /\ s[from + 1] \in Digits
  THEN 2
  ELSE IF from <= Len(s) /\ s[from] \in Digits THEN 1 ELSE 0

\* datetime.strptime(s, '%H%M').time(): the format's regular expression is
\* matched at the start of s, alternatives in order with backtracking; no
\* match, or characters left after the match, is a ValueError.
strptime(s) ==
  LET hlen == IF HourTwo(s) /\ MinuteLen(s, 3) > 0 THEN 2
              ELSE IF Len(s) >= 1 /\ s[1] \in Digits /\ MinuteLen(s, 2) > 0 THEN 1
              ELSE 0
      mlen == MinuteLen(s, hlen + 1)
  IN  IF hlen = 0 \/ hlen + mlen # Len(s) THEN Raise("ValueError")
      ELSE Ok(Time(ToInt(SubSeq(s, 1, hlen)),
                   ToInt(SubSeq(s, hlen + 1, hlen + mlen))))

\* The function applied to each start_time and end_time: a Python function
\* that falls off its end returns None; a missing cell (NaN, None) has no
\* isdigit method.
transform_military_time(military_time) ==
  IF "str" \notin DOMAIN military_time THEN Raise("AttributeError")
  ELSE IF isdigit(military_time.str) THEN strptime(military_time.str)
  ELSE Ok(None)

WordChar(c) == c \in Letters \cup Digits \cup {"_"}

\* \w+\d matches at position p of s.
RoomAt(s, p) ==
  \E q \in (p + 1)..Len(s) :
    s[q] \in Digits /\ \A j \in p..(q - 1) : WordChar(s[j])

\* re.search(r'(.*) \w+\d', s): group 1, the greedy .* , ends at the last
\* space that is followed by a match of \w+\d ; NaN when there is none.
extract(s) ==
  LET spaces == {i \in 1..Len(s) : s[i] = " " /\ RoomAt(s, i + 1)}
  IN  IF spaces = {} THEN NaN ELSE Str(SubSeq(s, 1, SetMax(spaces) - 1))

----------------------------------------------------------------------------
(* pandas: a DataFrame is its set of column names and its sequence of rows,
   each row a function from the column names to cells *)

isna(cell) == cell = NaN \/ cell = None

NoFrame == [columns |-> {}, rows |-> << >>]

\* pd.DataFrame(course_list): the columns are the union of the keys; a key a
\* dictionary lacks is NaN in its row.
DataFrame(list) ==
  LET cols == UNION {DOMAIN list[n] : n \in 1..Len(list)}
  IN  [columns |-> cols,
       rows |-> [n \in 1..Len(list) |->
                   [c \in cols |-> IF c \in DOMAIN list[n] THEN list[n][c] ELSE NaN]]]

\* df.drop(labels, axis=1): a label that is no column is a KeyError.
drop(frame, labels) ==
  IF ~(labels \subseteq frame.columns) THEN Raise("KeyError")
  ELSE Ok([columns |-> frame.columns \ labels,
           rows |-> [n \in 1..Len(frame.rows) |->
                       [c \in frame.columns \ labels |-> frame.rows[n][c]]]])

\* df[col].str.split(sep, expand=True): a frame as wide as the longest list
\* of parts, shorter lists padded with None, a NaN cell giving a row of NaN.
str_split(frame, col, sep) ==
  IF col \notin frame.columns THEN Raise("KeyError")
  ELSE LET N == Len(frame.rows)
           parts == [n \in 1..N |->
                       IF isna(frame.rows[n][col]) THEN <<NaN>>
                       ELSE split(frame.rows[n][col].str, sep)]
           width == SetMax({Len(parts[n]) : n \in 1..N} \cup {0})
       IN  Ok([width |-> width,
               rows |-> [n \in 1..N |->
                           [k \in 1..width |->
                              IF isna(frame.rows[n][col]) THEN NaN
                              ELSE IF k <= Len(parts[n]) THEN Str(parts[n][k])
                              ELSE None]]])

\* df[keys] = value for a frame value: as many columns as keys, or ValueError
\* ("Columns must be same length as key").
setitem(frame, keys, value) ==
  IF value.width # Len(keys) THEN Raise("ValueError")
  ELSE LET new == {keys[k] : k \in 1..Len(keys)}
           pos(c) == CHOOSE k \in 1..Len(keys) : keys[k] = c
       IN  Ok([columns |-> frame.columns \cup new,
               rows |-> [n \in 1..Len(frame.rows) |->
                           [c \in frame.columns \cup new |->
                              IF c \in new THEN value.rows[n][pos(c)]
                              ELSE frame.rows[n][c]]]])

\* df.dropna(subset=...), and in src/etl.py the drop of the index of the rows
\* with isna().any(axis=1): the rows with a missing cell in subset go.
dropna(frame, subset) ==
  [columns |-> frame.columns,
   rows |-> SelectSeq(frame.rows, LAMBDA r : \A c \in subset : ~isna(r[c]))]

\* df[col] = df[col].apply(transform_military_time): the function is called
\* on each cell in row order, and the first exception ends the call.
apply(frame, col) ==
  LET N == Len(frame.rows)
      res == [n \in 1..N |-> transform_military_time(frame.rows[n][col])]
      bad == {n \in 1..N : ~res[n].ok}
  IN  IF bad # {} THEN res[CHOOSE n \in bad : \A m \in bad : n <= m]
      ELSE Ok([columns |-> frame.columns,
               rows |-> [n \in 1..N |->
                           [frame.rows[n] EXCEPT ![col] = res[n].val]]])

\* df[col].str.contains(ch, na=False) for a one-letter pattern
contains(cell, ch) ==
  IF isna(cell) THEN FALSE ELSE \E k \in 1..Len(cell.str) : cell.str[k] = ch

\* df[col].str.extract(pattern) on one cell
str_extract(cell) == IF isna(cell) THEN NaN ELSE extract(cell.str)

----------------------------------------------------------------------------
(* transform *)

\* The name of the column holding contains('R'): src/etl.py line 87 spells
\* it 'thurday'.
thursday_column(mod) == IF mod = "etl" THEN "thurday" ELSE "thursday"

\* The five df[day] = df['day_of_week'].str.contains(letter, na=False).
weekday_columns(mod, frame) ==
  IF "day_of_week" \notin frame.columns THEN Raise("KeyError")
  ELSE LET letter == "monday" :> "M" @@ "tuesday" :> "T" @@ "wednesday" :> "W"
                     @@ thursday_column(mod) :> "R" @@ "friday" :> "F"
           cols == frame.columns \cup DOMAIN letter
       IN  Ok([columns |-> cols,
               rows |-> [n \in 1..Len(frame.rows) |->
                           [c \in cols |->
                              IF c \in DOMAIN letter
                              THEN contains(frame.rows[n]["day_of_week"], letter[c])
                              ELSE frame.rows[n][c]]]])

\* df['building'] = df['building'].str.extract(r'(.*) \w+\d')
building_column(frame) ==
  IF "building" \notin frame.columns THEN Raise("KeyError")
  ELSE Ok([columns |-> frame.columns,
           rows |-> [n \in 1..Len(frame.rows) |->
                       [frame.rows[n] EXCEPT !["building"] = str_extract(@)]]])

\* The statements of transform after the two splits have been assigned.
transform_tail(mod, frame) ==
  LET d4 == drop(frame, {"date_range", "time"})
  IN  IF ~d4.ok THEN d4 ELSE
  LET d5 == dropna(d4.val, {"start_time", "end_time"})
      d6 == apply(d5, "start_time")
  IN  IF ~d6.ok THEN d6 ELSE
  LET d7 == apply(d6.val, "end_time")
  IN  IF ~d7.ok THEN d7 ELSE
  LET d8 == weekday_columns(mod, d7.val)
  IN  IF ~d8.ok THEN d8 ELSE
  LET d9 == drop(d8.val, {"day_of_week"})
  IN  IF ~d9.ok THEN d9 ELSE building_column(d9.val)

\* transform(course_list): the table, or the exception that ends the call.
transform(mod, list) ==
  LET d1 == drop(DataFrame(list), {"attributes", "building_coords", "professors"})
  IN  IF ~d1.ok THEN d1 ELSE
  LET dates == str_split(d1.val, "date_range", Sep)
  IN  IF ~dates.ok THEN dates ELSE
  LET d2 == setitem(d1.val, <<"start_date", "end_date">>, dates.val)
  IN  IF ~d2.ok THEN d2 ELSE
  LET times == str_split(d2.val, "time", Sep)
  IN  IF ~times.ok THEN times ELSE
  LET d3 == setitem(d2.val, <<"start_time", "end_time">>, times.val)
  IN  IF ~d3.ok THEN d3 ELSE transform_tail(mod, d3.val)

----------------------------------------------------------------------------
(* The catalog documents the pipeline is run on *)

\* Sections in one document, and characters in a generated string.
MaxSections == 2

MaxHalfLen == 4

MaxDayLen == 3

MaxBuildingLen == 5

Join(a, b) == a \o Sep \o b

H0800 == <<"0", "8", "0", "0">>

H0915 == <<"0", "9", "1", "5">>

H1230 == <<"1", "2", "3", "0">>

H1345 == <<"1", "3", "4", "5">>

TBA == <<"T", "B", "A">>

Jan06 == <<"2", "0", "2", "5", "-", "0", "1", "-", "0", "6">>

May02 == <<"2", "0", "2", "5", "-", "0", "5", "-", "0", "2">>

Mar10 == <<"2", "0", "2", "5", "-", "0", "3", "-", "1", "0">>

MWF == <<"M", "W", "F">>

CloughG25 == <<"C", "l", "o", "u", "g", "h", " ", "G", "2", "5">>

\* A caches bundle with every table, two entries each.
FullCaches ==
  [periods |-> <<Str(Join(H0800, H0915)), Str(Join(H1230, H1345))>>,
   locations |-> <<"33.7746,-84.3964", "33.7773,-84.3962">>,
   dateRanges |-> <<Str(Join(Jan06, May02)), Str(Join(Mar10, May02))>>,
   scheduleTypes |-> <<"Lecture", "Lab">>,
   campuses |-> <<"Atlanta", "Online">>,
   attributes |-> <<"Honors", "Ethics">>]

CourseIds == <<"CS 1331", "CS 1332">>

DisplayNames == <<"Object-Oriented Programming", "Data Structures">>

SectionIds == <<"A", "B", "C", "D">>

Crn(c, k) == 100 * c + k

\* A meeting tuple [periodIdx, dayCodes, building, locationIdx, professors,
\* dateRangeIdx] and a section tuple [crn, meetings, credits,
\* scheduleTypeIdx, campusIdx, attributeIdxs], as the loop body reads them.
BaseMeeting == <<0, Str(MWF), Str(CloughG25), 0, <<"Staff">>, 0>>

BaseSection == <<0, <<BaseMeeting>>, 3, 0, 0, << >>>>

\* Cache indices tried: 0 and 1 are in range of a two-entry table, -1 counts
\* from the end, 2 is past the end.
IdxValues == {-1, 0, 1, 2}

MeetingLists ==
  {<< >>, <<BaseMeeting, [BaseMeeting EXCEPT ![1] = 1]>>,
   <<SubSeq(BaseMeeting, 1, 5)>>}
  \cup {<<[BaseMeeting EXCEPT ![1] = i]>> : i \in IdxValues}
  \cup {<<[BaseMeeting EXCEPT ![4] = 2]>>, <<[BaseMeeting EXCEPT ![6] = 2]>>}

AttributeLists == {<<0>>, <<0, 1>>, <<1, 0>>, <<2>>, <<-1>>}

SectionKinds ==
  {[BaseSection EXCEPT ![2] = m] : m \in MeetingLists}
  \cup {[BaseSection EXCEPT ![4] = i] : i \in IdxValues}
  \cup {[BaseSection EXCEPT ![5] = 2]}
  \cup {[BaseSection EXCEPT ![6] = a] : a \in AttributeLists}
  \cup {SubSeq(BaseSection, 1, 1), SubSeq(BaseSection, 1, 5)}

\* Course number c with the given SectionRecords, keyed "A", "B", ... and
\* given distinct crns.
Course(c, kinds) ==
  <<CourseIds[c],
    <<DisplayNames[c],
      [k \in 1..Len(kinds) |->
         <<SectionIds[k], [kinds[k] EXCEPT ![1] = Crn(c, k)]>>]>>>>

Doc(caches, courses) == [caches |-> caches, courses |-> courses]

SeqsUpTo(S, n) == UNION {[1..k -> S] : k \in 0..n}

\* The kinds of section combined in documents of several sections: the base
\* section, one without meetings, one whose period index is past the end,
\* one whose period index is negative, one of another schedule type, one
\* with two attributes.
CoreKinds ==
  {BaseSection,
   [BaseSection EXCEPT ![2] = << >>],
   [BaseSection EXCEPT ![2] = <<[BaseMeeting EXCEPT ![1] = 2]>>],
   [BaseSection EXCEPT ![2] = <<[BaseMeeting EXCEPT ![1] = -1]>>],
   [BaseSection EXCEPT ![4] = 1],
   [BaseSection EXCEPT ![6] = <<1, 0>>]}

\* Documents of up to two courses with at most MaxSections sections in all,
\* documents whose second course lacks its sections mapping, and the
\* one-section documents of every kind of section.
CatalogDocs ==
  {Doc(FullCaches, << >>)}
  \cup UNION {{Doc(FullCaches, <<Course(1, s1), Course(2, s2)>>) :
                 s1 \in [1..k -> CoreKinds],
                 s2 \in SeqsUpTo(CoreKinds, MaxSections - k)} :
              k \in 0..MaxSections}
  \cup {Doc(FullCaches, <<Course(1, s1)>>) : s1 \in SeqsUpTo(CoreKinds, MaxSections)}
  \cup {Doc(FullCaches, <<Course(1, s1), <<CourseIds[2], <<DisplayNames[2]>>>>>>) :
          s1 \in SeqsUpTo(CoreKinds, 1)}
  \cup {Doc(FullCaches, <<Course(1, <<s>>)>>) : s \in SectionKinds}

\* Period and date-range strings of a noisy feed.
NoisyCaches ==
  [FullCaches EXCEPT
     !.periods = <<Str(Join(H0800, H0915)),
                   Str(TBA),
                   Str(Join(Join(H0800, H0915), H1230)),
                   Str(Join(TBA, TBA)),
                   Str(Join(<<"8", "0", "0">>, <<"9", "1", "5">>)),
                   Str(Join(<<"2", "5", "0", "0">>, H0915))>>,
     !.dateRanges = <<Str(Join(Jan06, May02)), Str(TBA)>>]

NoisySections ==
  {[BaseSection EXCEPT ![2] = << >>]}
  \cup {[BaseSection EXCEPT ![2] = <<[BaseMeeting EXCEPT ![1] = i]>>] :
          i \in 0..(Len(NoisyCaches.periods) - 1)}
  \cup {[BaseSection EXCEPT ![2] = <<[BaseMeeting EXCEPT ![6] = 1]>>]}

NoisyDocs ==
  {Doc(NoisyCaches, <<Course(1, s)>>) : s \in SeqsUpTo(NoisySections, MaxSections)}

\* One course, one section, one meeting.
OneMeeting(caches, meeting) ==
  Doc(caches, <<Course(1, <<[BaseSection EXCEPT ![2] = <<meeting>>]>>)>>)

\* Start and end halves over a small alphabet, one half varied at a time.
HalfChars == {"0", "6", "A"}

Halves == UNION {[1..n -> HalfChars] : n \in 0..MaxHalfLen}

TimeDocs ==
  {OneMeeting([FullCaches EXCEPT !.periods = <<Str(Join(h, H0915))>>], BaseMeeting) :
     h \in Halves}
  \cup
  {OneMeeting([FullCaches EXCEPT !.periods = <<Str(Join(H0800, h))>>], BaseMeeting) :
     h \in Halves}

DayChars == {"M", "T", "W", "R", "F", "S"}

DayDocs ==
  {OneMeeting(FullCaches, [BaseMeeting EXCEPT ![2] = Str(d)]) :
     d \in SeqsUpTo(DayChars, MaxDayLen)}

BuildingChars == {"G", "2", " "}

BuildingDocs ==
  {OneMeeting(FullCaches, [BaseMeeting EXCEPT ![3] = Str(b)]) :
     b \in SeqsUpTo(BuildingChars, MaxBuildingLen)}

\* The one-meeting document under every caches bundle that carries at least
\* the four tables periods, dateRanges, scheduleTypes and campuses.
ScenarioTables == {"periods", "dateRanges", "scheduleTypes", "campuses"}

ScenarioDocs ==
  {Doc([t \in ScenarioTables \cup extra |-> FullCaches[t]],
       <<Course(1, <<[BaseSection EXCEPT
                        ![2] = <<[BaseMeeting EXCEPT ![1] = p, ![6] = d]>>,
                        ![4] = s, ![5] = c, ![6] = a]>>)>>) :
     extra \in SUBSET {"locations", "attributes"},
     p \in {0, 1}, d \in {0, 1}, s \in {0, 1}, c \in {0, 1},
     a \in {<< >>, <<1>>}}

Documents ==
  CatalogDocs \cup NoisyDocs \cup TimeDocs \cup DayDocs \cup BuildingDocs
  \cup ScenarioDocs

----------------------------------------------------------------------------
(* The pipeline: gt_class_etl() calls transform_json_to_list on the fetched
   document, then transform on its result; an exception ends the run. *)

Modules == {"etl", "gt_class_etl"}

CallTransformJsonToList ==
  /\ pc = "start"
  /\ LET r == transform_json_to_list(module, json)
     IN  /\ course_list' = IF r.ok THEN r.val ELSE << >>
         /\ error' = IF r.ok THEN "none" ELSE r.exc
         /\ pc' = IF r.ok THEN "flattened" ELSE "flatten_raised"
  /\ UNCHANGED <<module, json, df>>

CallTransform ==
  /\ pc = "flattened"
  /\ LET r == transform(module, course_list)
     IN  /\ df' = IF r.ok THEN r.val ELSE NoFrame
         /\ error' = IF r.ok THEN "none" ELSE r.exc
         /\ pc' = IF r.ok THEN "done" ELSE "transform_raised"
  /\ UNCHANGED <<module, json, course_list>>

Next == CallTransformJsonToList \/ CallTransform

Init ==
  /\ module \in Modules
  /\ json \in Documents
  /\ pc = "start"
  /\ course_list = << >>
  /\ df = NoFrame
  /\ error = "none"

Spec == Init /\ [][Next]_vars

----------------------------------------------------------------------------
(* The input document and the run's results, read directly *)

InRange(table, i) == i \in 0..(Len(table) - 1)

TableNames ==
  {"periods", "locations", "dateRanges", "scheduleTypes", "campuses", "attributes"}

MeetingKeys ==
  {"time", "day_of_week", "building", "building_coords", "professors", "date_range"}

SectionsOf(course) == IF Len(course[2]) >= 2 THEN course[2][2] ELSE << >>

\* The (course, section) pairs of the document in document order.
RECURSIVE InputSections(_)
InputSections(courses) ==
  IF Len(courses) = 0 THEN << >>
  ELSE LET c == Head(courses)
       IN  [k \in 1..Len(SectionsOf(c)) |->
              [name |-> c[1], section |-> SectionsOf(c)[k][1],
               details |-> SectionsOf(c)[k][2]]]
           \o InputSections(Tail(courses))

\* A section tuple with its fixed positions and every consumed index within
\* 0..len-1 of its table.
SectionWellFormed(caches, d) ==
  /\ Len(d) >= 6
  /\ InRange(caches.scheduleTypes, d[4])
  /\ InRange(caches.campuses, d[5])
  /\ \A k \in 1..Len(d[6]) : InRange(caches.attributes, d[6][k])
  /\ Len(d[2]) > 0 =>
       /\ Len(d[2][1]) >= 6
       /\ InRange(caches.periods, d[2][1][1])
       /\ InRange(caches.locations, d[2][1][4])
       /\ InRange(caches.dateRanges, d[2][1][6])

CoursesWellFormed(doc) ==
  /\ \A c \in 1..Len(doc.courses) : Len(doc.courses[c][2]) = 2
  /\ \A n \in 1..Len(InputSections(doc.courses)) :
       SectionWellFormed(doc.caches, InputSections(doc.courses)[n].details)

WellFormed(doc) == TableNames \subseteq DOMAIN doc.caches /\ CoursesWellFormed(doc)

Flattened == pc \in {"flattened", "done", "transform_raised"}

\* The dictionary of course_list a row of the table comes from.
RecordOf(crn) ==
  course_list[CHOOSE n \in 1..Len(course_list) : course_list[n].crn = crn]

HasChar(s, ch) == \E k \in 1..Len(s) : s[k] = ch

IsTime(cell) == "hour" \in DOMAIN cell

\* A 4-digit 24-hour string and the wall-clock time it denotes.
IsHHMM(h) ==
  /\ Len(h) = 4
  /\ \A k \in 1..4 : h[k] \in Digits
  /\ 10 * DigitVal[h[1]] + DigitVal[h[2]] <= 23
  /\ 10 * DigitVal[h[3]] + DigitVal[h[4]] <= 59

ClockOf(h) ==
  Time(10 * DigitVal[h[1]] + DigitVal[h[2]], 10 * DigitVal[h[3]] + DigitVal[h[4]])

PeriodFormat(s) ==
  /\ Len(s) = 11
  /\ SubSeq(s, 5, 7) = Sep
  /\ IsHHMM(SubSeq(s, 1, 4))
  /\ IsHHMM(SubSeq(s, 8, 11))

IsDate(d) ==
  /\ Len(d) = 10
  /\ d[5] = "-" /\ d[8] = "-"
  /\ \A k \in {1, 2, 3, 4, 6, 7, 9, 10} : d[k] \in Digits

DateRangeFormat(s) ==
  /\ Len(s) = 23
  /\ SubSeq(s, 11, 13) = Sep
  /\ IsDate(SubSeq(s, 1, 10))
  /\ IsDate(SubSeq(s, 14, 23))

----------------------------------------------------------------------------
(* Properties *)

\* C1: every row of transform's output has start_time and end_time present
\* as wall-clock times; a record whose time is absent or unparsable yields
\* no row.
C1_EveryRowHasBothTimes ==
  pc = "done" =>
    \A n \in 1..Len(df.rows) :
      IsTime(df.rows[n].start_time) /\ IsTime(df.rows[n].end_time)

\* C2: for a well-formed document transform_json_to_list returns exactly one
\* dictionary per (course, section) pair, none filtered, in document order.
C2_OneRecordPerSectionInOrder ==
  (pc # "start" /\ WellFormed(json)) =>
    /\ pc # "flatten_raised"
    /\ Len(course_list) = Len(InputSections(json.courses))
    /\ \A n \in 1..Len(course_list) :
         /\ course_list[n].name = InputSections(json.courses)[n].name
         /\ course_list[n].section = InputSections(json.courses)[n].section
         /\ course_list[n].crn = InputSections(json.courses)[n].details[1]

\* Two courses of one section each were flattened, the first section having
\* no meeting.
C2_Witness ==
  /\ pc = "flattened"
  /\ WellFormed(json)
  /\ Len(course_list) = 2
  /\ course_list[1].name # course_list[2].name
  /\ "time" \notin DOMAIN course_list[1]
  /\ "time" \in DOMAIN course_list[2]

\* C3: transform never ends in an exception, whatever the records.
C3_TransformNeverRaises == pc # "transform_raised"

\* Some course lacks its sections mapping, or some section has a short tuple
\* or a consumed cache index outside 0..len-1 of its table.
HasBadIndexOrShortTuple(doc) ==
  TableNames \subseteq DOMAIN doc.caches /\ ~CoursesWellFormed(doc)

\* C4: a document with an out-of-range cache index or a short tuple makes
\* transform_json_to_list fail as a whole, with no list returned.
C4_MalformedDocumentFailsTheRun ==
  (pc # "start" /\ HasBadIndexOrShortTuple(json)) =>
    pc = "flatten_raised" /\ Len(course_list) = 0

\* The two raw halves of the time of the record behind row n.
RawHalves(n) == split(RecordOf(df.rows[n].crn).time.str, Sep)

\* C5: a raw time half is converted only if it has exactly 4 digits, read as
\* HHMM; a digit string of another length leaves no row in the output.
C5_OnlyFourDigitHalvesConverted ==
  pc = "done" =>
    \A n \in 1..Len(df.rows) :
      /\ \A k \in 1..2 : ~(isdigit(RawHalves(n)[k]) /\ Len(RawHalves(n)[k]) # 4)
      /\ IsHHMM(RawHalves(n)[1]) => df.rows[n].start_time = ClockOf(RawHalves(n)[1])
      /\ IsHHMM(RawHalves(n)[2]) => df.rows[n].end_time = ClockOf(RawHalves(n)[2])

\* The section, the meeting and the referenced strings of a one-course,
\* one-section, one-meeting document.
TheSection(doc) == doc.courses[1][2][2][1][2]

TheMeeting(doc) == TheSection(doc)[2][1]

ThePeriod(doc) == doc.caches.periods[TheMeeting(doc)[1] + 1].str

TheDateRange(doc) == doc.caches.dateRanges[TheMeeting(doc)[6] + 1].str

\* One course holding one section with one meeting, a caches bundle with at
\* least the four tables of the scenario (and attributes when attributeIdxs
\* is not empty), every referenced index in range, and the referenced period
\* and date range in their documented formats "HHMM - HHMM" and
\* "YYYY-MM-DD - YYYY-MM-DD".
ScenarioShape(doc) ==
  /\ Len(doc.courses) = 1
  /\ Len(doc.courses[1][2]) = 2
  /\ Len(doc.courses[1][2][2]) = 1
  /\ Len(TheSection(doc)) = 6
  /\ Len(TheSection(doc)[2]) = 1
  /\ Len(TheMeeting(doc)) = 6
  /\ ScenarioTables \subseteq DOMAIN doc.caches
  /\ InRange(doc.caches.periods, TheMeeting(doc)[1])
  /\ InRange(doc.caches.dateRanges, TheMeeting(doc)[6])
  /\ InRange(doc.caches.scheduleTypes, TheSection(doc)[4])
  /\ InRange(doc.caches.campuses, TheSection(doc)[5])
  /\ "locations" \in DOMAIN doc.caches =>
       InRange(doc.caches.locations, TheMeeting(doc)[4])
  /\ \A k \in 1..Len(TheSection(doc)[6]) :
       /\ "attributes" \in DOMAIN doc.caches
       /\ InRange(doc.caches.attributes, TheSection(doc)[6][k])
  /\ PeriodFormat(ThePeriod(doc))
  /\ DateRangeFormat(TheDateRange(doc))

\* The locations table the meeting's locationIdx refers to is in the bundle.
LocationsPresent(doc) == "locations" \in DOMAIN doc.caches

\* The run ended with exactly the one row of the scenario.
ScenarioRow ==
  /\ pc = "done"
  /\ Len(df.rows) = 1
  /\ df.rows[1].crn = TheSection(json)[1]
  /\ df.rows[1].start_time = ClockOf(SubSeq(ThePeriod(json), 1, 4))
  /\ df.rows[1].end_time = ClockOf(SubSeq(ThePeriod(json), 8, 11))
  /\ df.rows[1].start_date = Str(SubSeq(TheDateRange(json), 1, 10))
  /\ df.rows[1].end_date = Str(SubSeq(TheDateRange(json), 14, 23))
  /\ df.rows[1].schedule_type = json.caches.scheduleTypes[TheSection(json)[4] + 1]
  /\ df.rows[1].campus = json.caches.campuses[TheSection(json)[5] + 1]

\* C6 as stated: a one-course, one-section, one-meeting document whose caches
\* carry periods, dateRanges, scheduleTypes and campuses, indices in range,
\* ends with exactly one row holding the resolved values.
C6_ScenarioEmitsOneRow ==
  (pc \notin {"start", "flattened"} /\ ScenarioShape(json)) => ScenarioRow

\* C6 amended: the same, for a caches bundle that also carries the locations
\* table, with locationIdx in its range.
C6_ScenarioWithLocationsEmitsOneRow ==
  (pc \notin {"start", "flattened"} /\ ScenarioShape(json)
     /\ LocationsPresent(json)) => ScenarioRow

\* The scenario ran to its one row under a bundle with locations, the
\* section referring to the second schedule type and the second period.
C6_Witness ==
  /\ pc = "done"
  /\ ScenarioShape(json)
  /\ LocationsPresent(json)
  /\ TheSection(json)[4] = 1
  /\ TheMeeting(json)[1] = 1
  /\ Len(df.rows) = 1

\* C7: a section with no meetings gives a dictionary without the meeting
\* keys, and the table transform returns has no row for such a dictionary.
C7_NoMeetingNoKeysNoRow ==
  /\ Flattened =>
       \A n \in 1..Len(course_list) :
         Len(InputSections(json.courses)[n].details[2]) = 0 =>
           DOMAIN course_list[n] \cap MeetingKeys = {}
  /\ pc = "done" =>
       \A n \in 1..Len(course_list) :
         "time" \notin DOMAIN course_list[n] =>
           \A m \in 1..Len(df.rows) : df.rows[m].crn # course_list[n].crn

\* transform returned a non-empty table from a list holding a dictionary
\* without meeting keys.
C7_Witness ==
  /\ pc = "done"
  /\ Len(df.rows) >= 1
  /\ \E n \in 1..Len(course_list) :
       /\ Len(InputSections(json.courses)[n].details[2]) = 0
       /\ "time" \notin DOMAIN course_list[n]

\* C8: the attributes field is the list of the labels of attributeIdxs, in
\* order and of the same length; an empty attributeIdxs gives an empty list.
C8_AttributesAreTheResolvedList ==
  Flattened =>
    \A n \in 1..Len(course_list) :
      LET a == InputSections(json.courses)[n].details[6]
      IN  (\A k \in 1..Len(a) : InRange(json.caches.attributes, a[k])) =>
            course_list[n].attributes =
              PyList([k \in 1..Len(a) |-> json.caches.attributes[a[k] + 1]])

Weekdays ==
  "monday" :> "M" @@ "tuesday" :> "T" @@ "wednesday" :> "W"
  @@ "thursday" :> "R" @@ "friday" :> "F"

\* C9: every row has the five fields monday..friday, each true exactly when
\* the record's dayCodes contains its letter, and no dayCodes field.
C9_WeekdayFlagsFollowDayCodes ==
  pc = "done" =>
    \A n \in 1..Len(df.rows) :
      /\ DOMAIN Weekdays \subseteq DOMAIN df.rows[n]
      /\ "day_of_week" \notin DOMAIN df.rows[n]
      /\ \A d \in DOMAIN Weekdays :
           df.rows[n][d] =
             HasChar(RecordOf(df.rows[n].crn).day_of_week.str, Weekdays[d])

\* s ends in a room-code token: its last whitespace-separated token follows
\* a space at position i, is alphanumeric and ends in a digit.  The token is
\* taken to have a character before its final digit, as the pattern \w+\d
\* has: a token of one digit is not counted against the code.
RoomTokenAfter(s, i) ==
  /\ i + 1 < Len(s)
  /\ s[i] = " "
  /\ \A j \in (i + 1)..Len(s) : s[j] \in Letters \cup Digits
  /\ s[Len(s)] \in Digits

\* C10: building is the part of buildingRaw before a trailing room-code
\* token; without such a token at the end, building is absent and the row
\* is kept.
C10_BuildingPrecedesTrailingRoomToken ==
  pc = "done" =>
    \A n \in 1..Len(df.rows) :
      LET raw == RecordOf(df.rows[n].crn).building.str
      IN  IF \E i \in 1..Len(raw) : RoomTokenAfter(raw, i)
          THEN df.rows[n].building =
                 Str(SubSeq(raw, 1, (CHOOSE i \in 1..Len(raw) : RoomTokenAfter(raw, i)) - 1))
          ELSE df.rows[n].building = NaN

====
